---- MODULE Spec2Model ----
(***************************************************************************)
(* Model of the ocean-sentinel severity scoring engine.                    *)
(*                                                                         *)
(*   - PlasticDetector (pixel-heuristic mode): analyzeColorDistribution,   *)
(*     calculateWaterScore, detectPlasticIndicators, detectUnnaturalColors *)
(*     and the thresholding of analyzeImage.                               *)
(*   - AdvancedPlasticDetector (external-detector mode): detectFromFile    *)
(*     with its two detector calls and combineResults.                     *)
(*                                                                         *)
(* Numbers.  JavaScript numbers are modelled as exact rationals            *)
(* [n |-> numerator, d |-> denominator > 0] in lowest terms.  The pixel    *)
(* tests of analyzeColorDistribution compare 8-bit integers with products  *)
(* such as r * 1.2 and max * 0.8; for integers in 0..255 the double        *)
(* product rounds to the exact value whenever that value is an integer,    *)
(* so the rational comparison decides exactly as the double one does.      *)
(* The score arithmetic (sums of products of ratios) is modelled without   *)
(* the rounding error of IEEE doubles.                                     *)
(*                                                                         *)
(* Strings are sequences of one-character strings, so that toLowerCase,    *)
(* includes, template concatenation and toFixed are computed.              *)
(***************************************************************************)
EXTENDS Integers, Sequences, FiniteSets, TLC

(***************************************************************************)
(* Bounds of the model.                                                    *)
(***************************************************************************)
\* number of samples of the pixel grid (200 x 200 in the program)
GridSize == 12
\* Math.random() is drawn from {0, 1/RandomSteps, ..., (RandomSteps-1)/RandomSteps}
RandomSteps == 3
\* most labelAnnotations / objectAnnotations / predictions in one response
MaxLabels == 2
MaxObjects == 1
MaxBoxes == 2
\* most loadDetections calls of one PlasticMap, most rows added meanwhile
MaxLoads == 3
MaxRows == 2

(***************************************************************************)
(* Exact rational arithmetic.                                              *)
(***************************************************************************)
RECURSIVE GCD(_, _)
GCD(a, b) == IF b = 0 THEN a ELSE GCD(b, a % b)

Abs(x) == IF x < 0 THEN -x ELSE x

\* the rational n/d (d > 0) in lowest terms
R(n, d) ==
    LET g == GCD(Abs(n), d)
    IN  IF n = 0 THEN [n |-> 0, d |-> 1] ELSE [n |-> n \div g, d |-> d \div g]

Zero == R(0, 1)
One == R(1, 1)

Add(x, y) == R(x.n * y.d + y.n * x.d, x.d * y.d)
Mul(x, y) == R(x.n * y.n, x.d * y.d)
Lt(x, y) == x.n * y.d < y.n * x.d
Le(x, y) == x.n * y.d <= y.n * x.d
Gt(x, y) == Lt(y, x)
Ge(x, y) == Le(y, x)
Min(x, y) == IF Lt(y, x) THEN y ELSE x
Max(x, y) == IF Lt(x, y) THEN y ELSE x

\* Math.random(): a value in [0, 1)
Randoms == {R(k, RandomSteps) : k \in 0 .. (RandomSteps - 1)}

(***************************************************************************)
(* PlasticDetector: the colour histogram.                                  *)
(***************************************************************************)
\* the ten categories of which a pixel increments at most one
PrimaryBuckets ==
    {"darkBlue", "mediumBlue", "lightBlue", "brightBlue", "white",
     "gray", "red", "yellow", "green", "brown"}

\* the eleven counters of analyzeColorDistribution
BucketNames == PrimaryBuckets \cup {"greenBlue"}

\* the counts object as analyzeColorDistribution creates it
EmptyCounts(n) ==
    [darkBlue |-> 0, mediumBlue |-> 0, lightBlue |-> 0, greenBlue |-> 0,
     white |-> 0, brightBlue |-> 0, red |-> 0, yellow |-> 0, green |-> 0,
     gray |-> 0, brown |-> 0, total |-> n]

Max3(r, g, b) == IF r >= g /\ r >= b THEN r ELSE IF g >= b THEN g ELSE b
Min3(r, g, b) == IF r <= g /\ r <= b THEN r ELSE IF g <= b THEN g ELSE b

\* a mutation of Buckets: the white test is an independent if, not an else-if
BucketsWhiteNotElse(p) ==
    LET r == p[1]
        g == p[2]
        b == p[3]
        max == Max3(r, g, b)
        min == Min3(r, g, b)
        diff == max - min
    IN  (IF r > 200 /\ g > 200 /\ b > 200 THEN {"white"} ELSE {})
        \cup
        (IF b > r /\ b > g
         THEN (IF b < 100 /\ diff < 50 THEN {"darkBlue"}
               ELSE IF b < 160 /\ diff < 70 THEN {"mediumBlue"}
               ELSE IF b < 200 /\ diff < 90 THEN {"lightBlue"}
               ELSE IF diff > 100 THEN {"brightBlue"}
               ELSE {})
              \cup (IF 5 * g > 6 * r THEN {"greenBlue"} ELSE {})
         ELSE IF diff < 30 THEN {"gray"}
         ELSE IF 5 * r > 4 * max THEN {"red"}
         ELSE IF 5 * g > 4 * max /\ r > b THEN {"yellow"}
         ELSE IF 5 * g > 4 * max THEN {"green"}
         ELSE IF r > 100 /\ g > 70 /\ b < 100 THEN {"brown"}
         ELSE {})

\* the counters one iteration of the loop of analyzeColorDistribution
\* increments for the pixel p = <<r, g, b>>;
\* g > r * 1.2 is 5g > 6r and x > max * 0.8 is 5x > 4max
Buckets(p) ==
    LET r == p[1]
        g == p[2]
        b == p[3]
        max == Max3(r, g, b)
        min == Min3(r, g, b)
        diff == max - min
    IN  IF b > r /\ b > g
        THEN (IF b < 100 /\ diff < 50 THEN {"darkBlue"}
              ELSE IF b < 160 /\ diff < 70 THEN {"mediumBlue"}
              ELSE IF b < 200 /\ diff < 90 THEN {"lightBlue"}
              ELSE IF diff > 100 THEN {"brightBlue"}
              ELSE {})
             \cup (IF 5 * g > 6 * r THEN {"greenBlue"} ELSE {})
        ELSE IF r > 200 /\ g > 200 /\ b > 200 THEN {"white"}
        ELSE IF diff < 30 THEN {"gray"}
        ELSE IF 5 * r > 4 * max THEN {"red"}
        ELSE IF 5 * g > 4 * max /\ r > b THEN {"yellow"}
        ELSE IF 5 * g > 4 * max THEN {"green"}
        ELSE IF r > 100 /\ g > 70 /\ b < 100 THEN {"brown"}
        ELSE {}

\* counts after the loop body has run for pixel p
CountPixel(c, p) ==
    [k \in DOMAIN c |-> IF k \in Buckets(p) THEN c[k] + 1 ELSE c[k]]

(***************************************************************************)
(* PlasticDetector: the heuristic scores.                                  *)
(***************************************************************************)
\* a mutation of calculateWaterScore: the Math.min(1, ...) is missing
WaterScoreNoClamp(c) ==
    Add(R(c.darkBlue + c.mediumBlue + c.lightBlue + c.greenBlue, c.total),
        Mul(R(c.gray, 2 * c.total), R(3, 10)))

calculateWaterScore(c) ==
    LET totalPixels == c.total
        waterBlueRatio ==
            R(c.darkBlue + c.mediumBlue + c.lightBlue + c.greenBlue, totalPixels)
        naturalRatio == Mul(R(c.gray, totalPixels), R(1, 2))
    IN  Min(One, Add(waterBlueRatio, Mul(naturalRatio, R(3, 10))))

\* a mutation of detectPlasticIndicators: the bright-blue band ends at 0.1
IndicatorsNarrowBand(c) ==
    LET whiteRatio == R(c.white, c.total)
        brightBlueRatio == R(c.brightBlue, c.total)
        artificialColorRatio == R(c.red + c.yellow, c.total)
        s1 == IF Gt(whiteRatio, R(1, 100)) /\ Lt(whiteRatio, R(3, 10))
              THEN Mul(whiteRatio, R(2, 1)) ELSE Zero
        s2 == IF Gt(brightBlueRatio, R(5, 1000)) /\ Lt(brightBlueRatio, R(1, 10))
              THEN Mul(brightBlueRatio, R(3, 1)) ELSE Zero
        s3 == IF Gt(artificialColorRatio, R(1, 100))
              THEN Mul(artificialColorRatio, R(4, 1)) ELSE Zero
    IN  [score |-> Min(One, Add(Add(s1, s2), s3)),
         bottleColors |-> brightBlueRatio,
         bagColors |-> whiteRatio,
         artificialColors |-> artificialColorRatio]

\* a mutation of detectPlasticIndicators: white has no upper guard
IndicatorsNoWhiteGuard(c) ==
    LET whiteRatio == R(c.white, c.total)
        brightBlueRatio == R(c.brightBlue, c.total)
        artificialColorRatio == R(c.red + c.yellow, c.total)
        s1 == IF Gt(whiteRatio, R(1, 100))
              THEN Mul(whiteRatio, R(2, 1)) ELSE Zero
        s2 == IF Gt(brightBlueRatio, R(5, 1000)) /\ Lt(brightBlueRatio, R(2, 10))
              THEN Mul(brightBlueRatio, R(3, 1)) ELSE Zero
        s3 == IF Gt(artificialColorRatio, R(1, 100))
              THEN Mul(artificialColorRatio, R(4, 1)) ELSE Zero
    IN  [score |-> Min(One, Add(Add(s1, s2), s3)),
         bottleColors |-> brightBlueRatio,
         bagColors |-> whiteRatio,
         artificialColors |-> artificialColorRatio]

\* a mutation of detectPlasticIndicators: the Math.min(1, score) is missing
IndicatorsNoClamp(c) ==
    LET whiteRatio == R(c.white, c.total)
        brightBlueRatio == R(c.brightBlue, c.total)
        artificialColorRatio == R(c.red + c.yellow, c.total)
        s1 == IF Gt(whiteRatio, R(1, 100)) /\ Lt(whiteRatio, R(3, 10))
              THEN Mul(whiteRatio, R(2, 1)) ELSE Zero
        s2 == IF Gt(brightBlueRatio, R(5, 1000)) /\ Lt(brightBlueRatio, R(2, 10))
              THEN Mul(brightBlueRatio, R(3, 1)) ELSE Zero
        s3 == IF Gt(artificialColorRatio, R(1, 100))
              THEN Mul(artificialColorRatio, R(4, 1)) ELSE Zero
    IN  [score |-> Add(Add(s1, s2), s3),
         bottleColors |-> brightBlueRatio,
         bagColors |-> whiteRatio,
         artificialColors |-> artificialColorRatio]

detectPlasticIndicators(c) ==
    LET totalPixels == c.total
        whiteRatio == R(c.white, totalPixels)
        brightBlueRatio == R(c.brightBlue, totalPixels)
        artificialColorRatio == R(c.red + c.yellow, totalPixels)
        \* White objects in water (bags, styrofoam)
        s1 == IF Gt(whiteRatio, R(1, 100)) /\ Lt(whiteRatio, R(3, 10))
              THEN Mul(whiteRatio, R(2, 1)) ELSE Zero
        \* Bright blue (bottles)
        s2 == IF Gt(brightBlueRatio, R(5, 1000)) /\ Lt(brightBlueRatio, R(2, 10))
              THEN Mul(brightBlueRatio, R(3, 1)) ELSE Zero
        \* Artificial colors
        s3 == IF Gt(artificialColorRatio, R(1, 100))
              THEN Mul(artificialColorRatio, R(4, 1)) ELSE Zero
    IN  [score |-> Min(One, Add(Add(s1, s2), s3)),
         bottleColors |-> brightBlueRatio,
         bagColors |-> whiteRatio,
         artificialColors |-> artificialColorRatio]

detectUnnaturalColors(c) ==
    LET totalPixels == c.total
        unnaturalRatio == R(c.red + c.yellow + c.brightBlue, totalPixels)
        brightArtificial == R(c.white, totalPixels)
        brownRatio == R(c.brown, totalPixels)
        s1 == IF Gt(unnaturalRatio, R(2, 100))
              THEN Mul(unnaturalRatio, R(2, 1)) ELSE Zero
        s2 == IF Gt(brightArtificial, R(5, 100)) /\ Lt(brightArtificial, R(4, 10))
              THEN brightArtificial ELSE Zero
        s3 == IF Gt(brownRatio, R(1, 10))
              THEN Mul(brownRatio, R(1, 2)) ELSE Zero
    IN  [score |-> Min(One, Add(Add(s1, s2), s3)),
         unnaturalRatio |-> unnaturalRatio,
         brightArtificial |-> brightArtificial,
         brownRatio |-> brownRatio]

(***************************************************************************)
(* PlasticDetector.analyzeImage after the histogram is built.              *)
(***************************************************************************)
\* a mutation of PlasticScore: the base is 0.3 whatever the water score
PlasticScoreFlatBase(c) ==
    LET plasticIndicators == detectPlasticIndicators(c)
        unnaturalColors == detectUnnaturalColors(c)
        sum == Add(Add(R(3, 10), Mul(plasticIndicators.score, R(4, 10))),
                   Mul(unnaturalColors.score, R(3, 10)))
    IN  Max(Zero, Min(One, sum))

\* the final plastic score: base, weighted indicators, clamp to [0, 1]
PlasticScore(c) ==
    LET waterScore == calculateWaterScore(c)
        plasticIndicators == detectPlasticIndicators(c)
        unnaturalColors == detectUnnaturalColors(c)
        base == IF Gt(waterScore, R(6, 10)) THEN R(1, 10) ELSE R(3, 10)
        sum == Add(Add(base, Mul(plasticIndicators.score, R(4, 10))),
                   Mul(unnaturalColors.score, R(3, 10)))
    IN  Max(Zero, Min(One, sum))

\* a mutation of Classify: the thresholds are inclusive (<=)
ClassifyInclusive(plasticScore, rnd) ==
    IF Le(plasticScore, R(25, 100))
    THEN [severity |-> "low", confidence |-> Add(R(85, 100), Mul(rnd, R(1, 10)))]
    ELSE IF Le(plasticScore, R(6, 10))
    THEN [severity |-> "medium", confidence |-> Add(R(75, 100), Mul(rnd, R(15, 100)))]
    ELSE [severity |-> "high", confidence |-> Add(R(8, 10), Mul(rnd, R(15, 100)))]

\* severity and confidence from the plastic score; rnd is Math.random()
Classify(plasticScore, rnd) ==
    IF Lt(plasticScore, R(25, 100))
    THEN [severity |-> "low", confidence |-> Add(R(85, 100), Mul(rnd, R(1, 10)))]
    ELSE IF Lt(plasticScore, R(6, 10))
    THEN [severity |-> "medium", confidence |-> Add(R(75, 100), Mul(rnd, R(15, 100)))]
    ELSE [severity |-> "high", confidence |-> Add(R(8, 10), Mul(rnd, R(15, 100)))]

\* the objects list of pixel mode
PixelObjects(c) ==
    LET plasticIndicators == detectPlasticIndicators(c)
        unnaturalColors == detectUnnaturalColors(c)
    IN  (IF Gt(plasticIndicators.bottleColors, R(2, 100))
         THEN <<"possible bottles">> ELSE <<>>)
        \o (IF Gt(plasticIndicators.bagColors, R(2, 100))
            THEN <<"possible bags">> ELSE <<>>)
        \o (IF Gt(unnaturalColors.brightArtificial, R(5, 100))
            THEN <<"artificial debris">> ELSE <<>>)

\* a mutation of analyzeImageResult: the jitter leaks into the plastic score
analyzeImageJittered(c, rnd) ==
    LET plasticScore == Min(One, Add(PlasticScore(c), Mul(rnd, R(1, 10))))
        cls == Classify(plasticScore, rnd)
    IN  [severity |-> cls.severity, confidence |-> cls.confidence,
         objects |-> PixelObjects(c), plasticScore |-> plasticScore]

\* the DetectionResult analyzeImage returns for the histogram c
analyzeImageResult(c, rnd) ==
    LET plasticScore == PlasticScore(c)
        cls == Classify(plasticScore, rnd)
    IN  [severity |-> cls.severity, confidence |-> cls.confidence,
         objects |-> PixelObjects(c), plasticScore |-> plasticScore]

(***************************************************************************)
(* Pixel grids the model analyses.                                         *)
(***************************************************************************)
\* channel values around every constant of analyzeColorDistribution
Channels == {0, 20, 40, 60, 71, 90, 99, 100, 150, 160, 200, 201, 255}

Pixels == {<<r, g, b>> : r \in Channels, g \in Channels, b \in Channels}

\* the colours of the scenes: deep blue, medium blue, bright blue, white,
\* a pale blue that matches no category, red
SceneColors ==
    <<(<<20, 40, 90>>), (<<60, 90, 150>>), (<<60, 60, 220>>), (<<255, 255, 255>>),
      (<<150, 160, 201>>), (<<255, 0, 0>>)>>

Repeat(p, n) == [k \in 1 .. n |-> p]

\* the grids of n samples made of the first k scene colours, in palette order
RECURSIVE SceneGrids(_, _)
SceneGrids(n, k) ==
    IF k = 0
    THEN (IF n = 0 THEN {<<>>} ELSE {})
    ELSE UNION {{s \o Repeat(SceneColors[k], m) : s \in SceneGrids(n - m, k - 1)}
                : m \in 0 .. n}

\* grids of one colour, any colour
UniformGrids == {Repeat(p, GridSize) : p \in Pixels}

Grids == UniformGrids \cup SceneGrids(GridSize, Len(SceneColors))

(***************************************************************************)
(* Strings: sequences of one-character strings.                            *)
(***************************************************************************)
UpperLetters == <<"A", "B", "C", "D", "E", "F", "G", "H", "I", "J", "K", "L", "M", "N", "O", "P", "Q", "R", "S", "T", "U", "V", "W", "X", "Y", "Z">>
LowerLetters == <<"a", "b", "c", "d", "e", "f", "g", "h", "i", "j", "k", "l", "m", "n", "o", "p", "q", "r", "s", "t", "u", "v", "w", "x", "y", "z">>

\* String.prototype.toLowerCase on the letters A-Z
toLowerCase(str) ==
    [k \in 1 .. Len(str) |->
        IF \E j \in 1 .. 26 : UpperLetters[j] = str[k]
        THEN LowerLetters[CHOOSE j \in 1 .. 26 : UpperLetters[j] = str[k]]
        ELSE str[k]]

\* String.prototype.includes
includes(str, term) ==
    \E k \in 0 .. (Len(str) - Len(term)) : SubSeq(str, k + 1, k + Len(term)) = term

DigitChars == <<"0", "1", "2", "3", "4", "5", "6", "7", "8", "9">>

\* the decimal digits of a natural number
RECURSIVE Digits(_)
Digits(n) == IF n < 10 THEN <<DigitChars[n + 1]>> ELSE Digits(n \div 10) \o <<DigitChars[(n % 10) + 1]>>

\* (x).toFixed(0) for x >= 0: round to the nearest integer, halves up
toFixed0(x) == Digits((2 * x.n + x.d) \div (2 * x.d))

\* a mutation of Dedupe: the list is returned as it is
NoDedupe(list) == list

\* [...new Set(list)]: the first occurrence of every entry, in order
RECURSIVE Dedupe(_)
Dedupe(list) ==
    IF list = <<>> THEN <<>>
    ELSE LET front == SubSeq(list, 1, Len(list) - 1)
             last == list[Len(list)]
         IN  IF \E k \in 1 .. Len(front) : front[k] = last
             THEN Dedupe(front)
             ELSE Append(Dedupe(front), last)

(***************************************************************************)
(* AdvancedPlasticDetector.combineResults.                                 *)
(***************************************************************************)
plasticLabels ==
    <<(<<"p", "l", "a", "s", "t", "i", "c">>),
      (<<"b", "o", "t", "t", "l", "e">>),
      (<<"t", "r", "a", "s", "h">>),
      (<<"w", "a", "s", "t", "e">>),
      (<<"p", "o", "l", "l", "u", "t", "i", "o", "n">>),
      (<<"d", "e", "b", "r", "i", "s">>),
      (<<"g", "a", "r", "b", "a", "g", "e">>),
      (<<"l", "i", "t", "t", "e", "r">>),
      (<<"c", "o", "n", "t", "a", "i", "n", "e", "r">>),
      (<<"b", "a", "g">>),
      (<<"p", "a", "c", "k", "a", "g", "i", "n", "g">>)>>

waterLabels ==
    <<(<<"o", "c", "e", "a", "n">>),
      (<<"w", "a", "t", "e", "r">>),
      (<<"s", "e", "a">>),
      (<<"w", "a", "v", "e">>),
      (<<"b", "e", "a", "c", "h">>),
      (<<"c", "o", "a", "s", "t">>),
      (<<"m", "a", "r", "i", "n", "e">>)>>

SuffixGoogle == <<" ", "(", "G", "o", "o", "g", "l", "e", ")">>
SuffixGoogleObject == <<" ", "(", "G", "o", "o", "g", "l", "e", " ", "O", "b", "j", "e", "c", "t", ")">>
RoboflowOpen == <<" ", "(", "R", "o", "b", "o", "f", "l", "o", "w", " ">>
RoboflowClose == <<"%", ")">>
FallbackLabel == <<"U", "n", "a", "b", "l", "e", " ", "t", "o", " ", "c", "o", "n", "n", "e", "c", "t", " ", "t", "o", " ", "A", "I", " ", "s", "e", "r", "v", "i", "c", "e", "s">>

IsPlasticTerm(text) ==
    LET desc == toLowerCase(text)
    IN  \E k \in 1 .. Len(plasticLabels) : includes(desc, plasticLabels[k])

IsWaterTerm(text) ==
    LET desc == toLowerCase(text)
    IN  \E k \in 1 .. Len(waterLabels) : includes(desc, waterLabels[k])

\* the value of a detector call that returned null
Null == [kind |-> "null"]

\* a mutation of PlasticLabelSum: the score is added once per matching term
RECURSIVE PlasticLabelSumPerTerm(_)
PlasticLabelSumPerTerm(labels) ==
    IF labels = <<>> THEN Zero
    ELSE LET desc == toLowerCase(Head(labels).description)
             matches == Cardinality({k \in 1 .. Len(plasticLabels) :
                                         includes(desc, plasticLabels[k])})
         IN  Add(PlasticLabelSumPerTerm(Tail(labels)),
                 Mul(Head(labels).score, R(matches, 1)))

\* sum of label.score over the labelAnnotations with a plastic term
RECURSIVE PlasticLabelSum(_)
PlasticLabelSum(labels) ==
    IF labels = <<>> THEN Zero
    ELSE Add(PlasticLabelSum(Tail(labels)),
             IF IsPlasticTerm(Head(labels).description) THEN Head(labels).score ELSE Zero)

\* sum of label.score over the labelAnnotations with a water term
RECURSIVE WaterLabelSum(_)
WaterLabelSum(labels) ==
    IF labels = <<>> THEN Zero
    ELSE Add(WaterLabelSum(Tail(labels)),
             IF IsWaterTerm(Head(labels).description) THEN Head(labels).score ELSE Zero)

\* sum of obj.score over the objectAnnotations with a plastic term
RECURSIVE PlasticObjectSum(_)
PlasticObjectSum(objs) ==
    IF objs = <<>> THEN Zero
    ELSE Add(PlasticObjectSum(Tail(objs)),
             IF IsPlasticTerm(Head(objs).name) THEN Head(objs).score ELSE Zero)

\* the entries the labelAnnotations loop pushes to detectedObjects
RECURSIVE LabelObjects(_)
LabelObjects(labels) ==
    IF labels = <<>> THEN <<>>
    ELSE (IF IsPlasticTerm(Head(labels).description)
          THEN <<Head(labels).description \o SuffixGoogle>> ELSE <<>>)
         \o LabelObjects(Tail(labels))

\* the entries the objectAnnotations loop pushes to detectedObjects
RECURSIVE ObjectObjects(_)
ObjectObjects(objs) ==
    IF objs = <<>> THEN <<>>
    ELSE (IF IsPlasticTerm(Head(objs).name)
          THEN <<Head(objs).name \o SuffixGoogleObject>> ELSE <<>>)
         \o ObjectObjects(Tail(objs))

\* googleVision?.responses?.[0] is truthy
HasResponse(googleVision) ==
    googleVision.kind = "object" /\ Len(googleVision.responses) > 0

\* what the Google Vision block adds to plasticScore and detectedObjects
GooglePart(googleVision) ==
    IF HasResponse(googleVision)
    THEN LET response == googleVision.responses[1]
             plasticLabelScore ==
                 Add(PlasticLabelSum(response.labelAnnotations),
                     PlasticObjectSum(response.objectAnnotations))
             waterLabelScore == WaterLabelSum(response.labelAnnotations)
         IN  [score |-> IF Gt(waterLabelScore, R(7, 10)) /\ Lt(plasticLabelScore, R(2, 10))
                        THEN R(1, 10)
                        ELSE Mul(plasticLabelScore, R(5, 10)),
              objects |-> LabelObjects(response.labelAnnotations)
                          \o ObjectObjects(response.objectAnnotations)]
    ELSE [score |-> Zero, objects |-> <<>>]

\* sum of pred.confidence over the predictions
RECURSIVE ConfidenceSum(_)
ConfidenceSum(preds) ==
    IF preds = <<>> THEN Zero
    ELSE Add(Head(preds).confidence, ConfidenceSum(Tail(preds)))

\* the entries the reduce over the predictions pushes to detectedObjects
RECURSIVE PredictionObjects(_)
PredictionObjects(preds) ==
    IF preds = <<>> THEN <<>>
    ELSE <<Head(preds).class \o RoboflowOpen
           \o toFixed0(Mul(Head(preds).confidence, R(100, 1))) \o RoboflowClose>>
         \o PredictionObjects(Tail(preds))

\* roboflow?.predictions && roboflow.predictions.length > 0
HasPredictions(roboflow) ==
    roboflow.kind = "object" /\ Len(roboflow.predictions) > 0

\* the average box confidence and the entries of the Roboflow block
RoboflowPart(roboflow) ==
    IF HasPredictions(roboflow)
    THEN LET sum == ConfidenceSum(roboflow.predictions)
         IN  [used |-> TRUE,
              roboflowScore |-> R(sum.n, sum.d * Len(roboflow.predictions)),
              objects |-> PredictionObjects(roboflow.predictions)]
    ELSE [used |-> FALSE, roboflowScore |-> Zero, objects |-> <<>>]

\* a mutation of FuseSeverity: the thresholds are inclusive (<=)
FuseSeverityInclusive(plasticScore) ==
    IF Le(plasticScore, R(2, 10)) THEN "low"
    ELSE IF Le(plasticScore, R(5, 10)) THEN "medium"
    ELSE "high"

\* the severity thresholds of combineResults
FuseSeverity(plasticScore) ==
    IF Lt(plasticScore, R(2, 10)) THEN "low"
    ELSE IF Lt(plasticScore, R(5, 10)) THEN "medium"
    ELSE "high"

\* a mutation of Fallback: the confidence of the roboflow block is kept
FallbackKeepsConfidence(rnd, confidence) ==
    [plasticScore |-> Add(R(3, 10), Mul(rnd, R(3, 10))),
     objects |-> <<FallbackLabel>>,
     confidence |-> Add(confidence, R(1, 10))]

\* a mutation of Fallback: the band of the random score starts at 0.1
FallbackLowBand(rnd, confidence) ==
    [plasticScore |-> Add(R(1, 10), Mul(rnd, R(3, 10))),
     objects |-> <<FallbackLabel>>,
     confidence |-> R(5, 10)]

\* the branch taken when neither API worked; rnd is Math.random()
Fallback(rnd, confidence) ==
    [plasticScore |-> Add(R(3, 10), Mul(rnd, R(3, 10))),
     objects |-> <<FallbackLabel>>,
     confidence |-> R(5, 10)]

\* a mutation of FuseConfidence: the cap of 0.95 is missing
FuseConfidenceNoCap(plasticScore) == Add(plasticScore, R(3, 10))

\* the confidence when a service answered
FuseConfidence(plasticScore) == Min(R(95, 100), Add(plasticScore, R(3, 10)))

\* the DetectionResult combineResults returns
combineResults(googleVision, roboflow, rnd) ==
    LET g == GooglePart(googleVision)
        rf == RoboflowPart(roboflow)
        score1 == g.score
        score2 == IF rf.used THEN Add(score1, Mul(rf.roboflowScore, R(5, 10))) ELSE score1
        conf2 == IF rf.used THEN Max(R(5, 10), rf.roboflowScore) ELSE R(5, 10)
        objs2 == g.objects \o rf.objects
        neither == googleVision.kind = "null" /\ roboflow.kind = "null"
        fb == Fallback(rnd, conf2)
        plasticScore == IF neither THEN fb.plasticScore ELSE score2
        detectedObjects == IF neither THEN fb.objects ELSE objs2
        confidence == IF neither THEN fb.confidence ELSE FuseConfidence(plasticScore)
    IN  [severity |-> FuseSeverity(plasticScore),
         confidence |-> confidence,
         objects |-> Dedupe(detectedObjects),
         plasticScore |-> plasticScore,
         googleVisionResults |-> googleVision,
         roboflowResults |-> roboflow]

(***************************************************************************)
(* Detector responses the model feeds to combineResults.                   *)
(***************************************************************************)
SeqsUpTo(S, n) == UNION {[1 .. k -> S] : k \in 0 .. n}

\* label descriptions: a plastic label, a water label, a neutral label
Descriptions ==
    {<<"P", "l", "a", "s", "t", "i", "c", " ", "b", "o", "t", "t", "l", "e">>,
     <<"O", "c", "e", "a", "n">>,
     <<"S", "k", "y">>}

\* localized object names
ObjectNames == {<<"B", "o", "t", "t", "l", "e">>}

\* classes of the specialized detector
BoxClasses == {<<"b", "o", "t", "t", "l", "e">>}

LabelScores == {R(1, 10), R(9, 10)}
ObjectScores == {R(9, 10)}
BoxConfidences == {R(1, 8), R(9, 10)}

LabelAnnotations == [description : Descriptions, score : LabelScores]
ObjectAnnotations == [name : ObjectNames, score : ObjectScores]
Predictions == [class : BoxClasses, confidence : BoxConfidences]

\* a parsed body that is an object without the expected property
\* (responses, predictions), such as {} or {error: ...}
Malformed == [kind |-> "malformed"]

\* bodies of the Google Vision call: malformed, with an empty responses array,
\* or with one response
GoogleData ==
    {Malformed, [kind |-> "object", responses |-> <<>>]}
    \cup {[kind |-> "object",
           responses |-> <<[labelAnnotations |-> l, objectAnnotations |-> o]>>] :
          l \in SeqsUpTo(LabelAnnotations, MaxLabels),
          o \in SeqsUpTo(ObjectAnnotations, MaxObjects)}

\* bodies of the Roboflow call: predictions may be empty
RoboflowData ==
    {Malformed}
    \cup {[kind |-> "object", predictions |-> b] : b \in SeqsUpTo(Predictions, MaxBoxes)}

\* the bodies a file can draw: a readable file that is not an image gets an
\* error body or a response without annotations, and no boxes
GoogleDataFor(f) ==
    IF f = "image" THEN GoogleData
    ELSE {Malformed,
          [kind |-> "object",
           responses |-> <<[labelAnnotations |-> <<>>, objectAnnotations |-> <<>>]>>]}

RoboflowDataFor(f) ==
    IF f = "image" THEN RoboflowData
    ELSE {Malformed, [kind |-> "object", predictions |-> <<>>]}

\* detectWithGoogleVision: null without an API key, on a fetch error and on
\* a non-2xx status; the parsed body otherwise
GoogleCauses == {"nokey", "network", "status", "ok"}
detectWithGoogleVision(cause, data) == IF cause = "ok" THEN data ELSE Null

\* detectWithRoboflow: as above, and a non-2xx status is retried on the
\* public model, whose body is returned when that call is ok
RoboflowCauses == {"nokey", "network", "ok", "public_ok", "public_fail"}
detectWithRoboflow(cause, data) ==
    IF cause \in {"ok", "public_ok"} THEN data ELSE Null

(***************************************************************************)
(* State.                                                                  *)
(***************************************************************************)
VARIABLES
    file,         \* the submitted file: "image", "unreadable" (FileReader fails), "corrupt" (not an image)
    promise,      \* PlasticDetector.detectFromFile: its promise, "pending" or "resolved"
    pixels,       \* PlasticDetector: the sampled grid (imageData.data), a sequence of <<r, g, b>>
    i,            \* PlasticDetector: samples the loop of analyzeColorDistribution has counted
    counts,       \* PlasticDetector: the histogram being built
    result,       \* PlasticDetector: the DetectionResult of the current call
    firstResult,  \* PlasticDetector: the DetectionResult of the previous call on the same grid
    call,         \* PlasticDetector: 1 for the first analysis of the grid, 2 for the repeated one
    pc,           \* PlasticDetector: "off", "reading", "decoding", "count" (in the loop), "done", "failed"
    googleResults,    \* AdvancedPlasticDetector.detectFromFile: Pending, or the value of the call
    roboflowResults,  \* AdvancedPlasticDetector.detectFromFile: Pending, or the value of the call
    combined,         \* AdvancedPlasticDetector.detectFromFile: the DetectionResult
    settled,          \* AdvancedPlasticDetector.detectFromFile: the detector calls in the order they settled
    combineCalls,     \* AdvancedPlasticDetector.detectFromFile: calls of combineResults so far
    fpc,              \* AdvancedPlasticDetector.detectFromFile: "off", "reading", "detecting", "done", "rejected"
    location,     \* UploadSection: the location state, "none", "gps" or "test" (the Jakarta Bay fallback)
    aiEnabled,    \* UploadSection: the aiEnabled state
    uploading,    \* UploadSection: the uploading state
    locals,       \* handleFileUpload: the closure's location and aiEnabled, the locals severity and confidence
    steps,        \* handleFileUpload: what the current run has done so far, in order
    record,       \* handleFileUpload: the row the current run has saved to plastic_detections
    upc,          \* handleFileUpload: "off", "idle", "detect", "store", "insert"
    mapc,         \* PlasticMap: "off", "rendered", "mounted", "unmounted"
    interval,     \* PlasticMap: the setInterval timer is active
    rows,         \* the number of rows of plastic_detections of the last 7 days
    loads,        \* PlasticMap: the loadDetections calls issued, in order
    detections,   \* PlasticMap: the detections state, as the number of rows it shows
    shownBy,      \* PlasticMap: the call whose data the detections state holds, 0 for none
    loading,      \* PlasticMap: the loading state
    unmountedAt   \* PlasticMap: the number of calls issued when it was unmounted, -1 before

pixelVars == <<promise, pixels, i, counts, result, firstResult, call, pc>>
fuseVars == <<googleResults, roboflowResults, combined, settled, combineCalls, fpc>>
uploadVars == <<location, aiEnabled, uploading, locals, steps, record, upc>>
mapVars == <<mapc, interval, rows, loads, detections, shownBy, loading, unmountedAt>>
vars == <<file, promise, pixels, i, counts, result, firstResult, call, pc,
          googleResults, roboflowResults, combined, settled, combineCalls, fpc,
          location, aiEnabled, uploading, locals, steps, record, upc,
          mapc, interval, rows, loads, detections, shownBy, loading, unmountedAt>>

\* the files a caller can submit
Files == {"image", "unreadable", "corrupt"}

NoResult == [severity |-> "none", confidence |-> Zero, objects |-> <<>>, plasticScore |-> Zero]
Pending == [kind |-> "pending"]
NoCombined == [severity |-> "none"]

PixelOff ==
    /\ promise = "pending"
    /\ pixels = <<>>
    /\ i = 0
    /\ counts = EmptyCounts(0)
    /\ result = NoResult
    /\ firstResult = result
    /\ call = 1
    /\ pc = "off"

FuseOff ==
    /\ googleResults = Pending
    /\ roboflowResults = Pending
    /\ combined = NoCombined
    /\ settled = <<>>
    /\ combineCalls = 0
    /\ fpc = "off"

NoLocals == [location |-> "none", aiEnabled |-> FALSE, severity |-> "none",
             confidence |-> Zero, origin |-> "none"]
NoRecord == [verified |-> FALSE, severity |-> "none"]

UploadOff ==
    /\ location = "none"
    /\ aiEnabled = TRUE
    /\ uploading = FALSE
    /\ locals = NoLocals
    /\ steps = <<>>
    /\ record = NoRecord
    /\ upc = "off"

MapOff ==
    /\ mapc = "off"
    /\ interval = FALSE
    /\ rows = 0
    /\ loads = <<>>
    /\ detections = 0
    /\ shownBy = 0
    /\ loading = TRUE
    /\ unmountedAt = -1

(***************************************************************************)
(* Pixel-heuristic mode: PlasticDetector.analyzeImage.                     *)
(***************************************************************************)
InitPixel ==
    /\ \/ file = "image" /\ pixels \in Grids
       \/ file \in {"unreadable", "corrupt"} /\ pixels = <<>>
    /\ promise = "pending"
    /\ i = 0
    /\ counts = EmptyCounts(0)
    /\ result = NoResult
    /\ firstResult = NoResult
    /\ call = 1
    /\ pc = "reading"
    /\ FuseOff
    /\ UploadOff
    /\ MapOff

\* reader.onload: the data URL is handed to a new Image
ReaderOnLoad ==
    /\ pc = "reading"
    /\ file # "unreadable"
    /\ pc' = "decoding"
    /\ UNCHANGED <<promise, pixels, i, counts, result, firstResult, call>>
    /\ UNCHANGED <<file, fuseVars, uploadVars, mapVars>>

\* the FileReader fires its error event: no handler is registered
ReaderError ==
    /\ pc = "reading"
    /\ file = "unreadable"
    /\ pc' = "failed"
    /\ UNCHANGED <<promise, pixels, i, counts, result, firstResult, call>>
    /\ UNCHANGED <<file, fuseVars, uploadVars, mapVars>>

\* img.onload: analyzeImage draws the image on the canvas, reads the grid
\* and creates the counts object
ImgOnLoad ==
    /\ pc = "decoding"
    /\ file = "image"
    /\ counts' = EmptyCounts(Len(pixels))
    /\ i' = 0
    /\ pc' = "count"
    /\ UNCHANGED <<promise, pixels, result, firstResult, call>>
    /\ UNCHANGED <<file, fuseVars, uploadVars, mapVars>>

\* the Image fires its error event: no handler is registered
ImgError ==
    /\ pc = "decoding"
    /\ file = "corrupt"
    /\ pc' = "failed"
    /\ UNCHANGED <<promise, pixels, i, counts, result, firstResult, call>>
    /\ UNCHANGED <<file, fuseVars, uploadVars, mapVars>>

\* one iteration of the loop of analyzeColorDistribution
CountNextPixel ==
    /\ pc = "count"
    /\ i < Len(pixels)
    /\ counts' = CountPixel(counts, pixels[i + 1])
    /\ i' = i + 1
    /\ UNCHANGED <<promise, pixels, result, firstResult, call, pc>>
    /\ UNCHANGED <<file, fuseVars, uploadVars, mapVars>>

\* the loop is over: scores, thresholds, objects, return; resolve(result)
FinishAnalysis ==
    /\ pc = "count"
    /\ i = Len(pixels)
    /\ \E rnd \in Randoms : result' = analyzeImageResult(counts, rnd)
    /\ promise' = "resolved"
    /\ pc' = "done"
    /\ UNCHANGED <<pixels, i, counts, firstResult, call>>
    /\ UNCHANGED <<file, fuseVars, uploadVars, mapVars>>

\* detectFromFile is called a second time with the same file
AnalyzeAgain ==
    /\ pc = "done"
    /\ call = 1
    /\ firstResult' = result
    /\ result' = NoResult
    /\ promise' = "pending"
    /\ call' = 2
    /\ pc' = "reading"
    /\ UNCHANGED <<pixels, i, counts>>
    /\ UNCHANGED <<file, fuseVars, uploadVars, mapVars>>

NextPixel ==
    \/ ReaderOnLoad
    \/ ReaderError
    \/ ImgOnLoad
    \/ ImgError
    \/ CountNextPixel
    \/ FinishAnalysis
    \/ AnalyzeAgain

SpecPixel == InitPixel /\ [][NextPixel]_vars

(***************************************************************************)
(* External-detector mode: AdvancedPlasticDetector.detectFromFile.         *)
(***************************************************************************)
InitFuse ==
    /\ PixelOff
    /\ UploadOff
    /\ MapOff
    /\ file \in Files
    /\ googleResults = Pending
    /\ roboflowResults = Pending
    /\ combined = NoCombined
    /\ settled = <<>>
    /\ combineCalls = 0
    /\ fpc = "reading"

\* fileToBase64 resolves (the file is read, not decoded); both detector
\* calls are started
FileToBase64 ==
    /\ fpc = "reading"
    /\ file # "unreadable"
    /\ fpc' = "detecting"
    /\ UNCHANGED <<googleResults, roboflowResults, combined, settled, combineCalls>>
    /\ UNCHANGED <<file, pixelVars, uploadVars, mapVars>>

\* reader.onerror: fileToBase64 rejects and so does detectFromFile
FileReadError ==
    /\ fpc = "reading"
    /\ file = "unreadable"
    /\ fpc' = "rejected"
    /\ UNCHANGED <<googleResults, roboflowResults, combined, settled, combineCalls>>
    /\ UNCHANGED <<file, pixelVars, uploadVars, mapVars>>

\* the promise of detectWithGoogleVision settles
GoogleVisionSettles ==
    /\ fpc = "detecting"
    /\ googleResults = Pending
    /\ \E cause \in GoogleCauses, data \in GoogleDataFor(file) :
          googleResults' = detectWithGoogleVision(cause, data)
    /\ settled' = Append(settled, "google")
    /\ UNCHANGED <<roboflowResults, combined, combineCalls, fpc>>
    /\ UNCHANGED <<file, pixelVars, uploadVars, mapVars>>

\* the promise of detectWithRoboflow settles
RoboflowSettles ==
    /\ fpc = "detecting"
    /\ roboflowResults = Pending
    /\ \E cause \in RoboflowCauses, data \in RoboflowDataFor(file) :
          roboflowResults' = detectWithRoboflow(cause, data)
    /\ settled' = Append(settled, "roboflow")
    /\ UNCHANGED <<googleResults, combined, combineCalls, fpc>>
    /\ UNCHANGED <<file, pixelVars, uploadVars, mapVars>>

\* Math.random() is called in the fallback branch only: the draws of a call
RandomDraws(googleVision, roboflow) ==
    IF googleVision.kind = "null" /\ roboflow.kind = "null" THEN Randoms ELSE {Zero}

\* a mutation of CombineResults: Promise.race, the first settled call is enough
CombineResultsOnFirst ==
    /\ fpc = "detecting"
    /\ googleResults # Pending \/ roboflowResults # Pending
    /\ \E rnd \in RandomDraws(googleResults, roboflowResults) :
          combined' = combineResults(googleResults, roboflowResults, rnd)
    /\ combineCalls' = combineCalls + 1
    /\ fpc' = "done"
    /\ UNCHANGED <<googleResults, roboflowResults, settled>>
    /\ UNCHANGED <<file, pixelVars, uploadVars, mapVars>>

\* Promise.allSettled resolves; combineResults runs and its value is returned
CombineResults ==
    /\ fpc = "detecting"
    /\ googleResults # Pending
    /\ roboflowResults # Pending
    /\ \E rnd \in RandomDraws(googleResults, roboflowResults) :
          combined' = combineResults(googleResults, roboflowResults, rnd)
    /\ combineCalls' = combineCalls + 1
    /\ fpc' = "done"
    /\ UNCHANGED <<googleResults, roboflowResults, settled>>
    /\ UNCHANGED <<file, pixelVars, uploadVars, mapVars>>

NextFuse ==
    \/ FileToBase64
    \/ FileReadError
    \/ GoogleVisionSettles
    \/ RoboflowSettles
    \/ CombineResults

SpecFuse == InitFuse /\ [][NextFuse]_vars

(***************************************************************************)
(* UploadSection: the component state and handleFileUpload.  The file      *)
(* input is disabled while uploading, so one run is in progress at a time; *)
(* the buttons stay enabled during a run.                                  *)
(***************************************************************************)
InitUpload ==
    /\ PixelOff
    /\ FuseOff
    /\ MapOff
    /\ file \in Files
    /\ location = "none"
    /\ aiEnabled = TRUE
    /\ uploading = FALSE
    /\ locals = NoLocals
    /\ steps = <<>>
    /\ record = NoRecord
    /\ upc = "idle"

\* what the two detector calls can return
GoogleOutcomes ==
    {detectWithGoogleVision(cause, data) : cause \in GoogleCauses, data \in GoogleData}
RoboflowOutcomes ==
    {detectWithRoboflow(cause, data) : cause \in RoboflowCauses, data \in RoboflowData}

\* the fields of the DetectionResult that handleFileUpload stores
Stored(detection) ==
    [severity |-> detection.severity, confidence |-> detection.confidence]

\* what advancedPlasticDetector.detectFromFile can resolve with, for an image
\* and for a readable file that is not an image
ImageDetections ==
    UNION {{Stored(combineResults(g, r, rnd)) : rnd \in RandomDraws(g, r)} :
              g \in GoogleOutcomes, r \in RoboflowOutcomes}
CorruptDetections ==
    UNION {{Stored(combineResults(g, r, rnd)) : rnd \in RandomDraws(g, r)} :
              g \in {Null} \cup GoogleDataFor("corrupt"),
              r \in {Null} \cup RoboflowDataFor("corrupt")}
DetectionsFor(f) == IF f = "image" THEN ImageDetections ELSE CorruptDetections

\* getCurrentLocation: the position callback, or the test location on a GPS
\* error or without geolocation support
GetCurrentLocation ==
    /\ upc # "off"
    /\ \E l \in {"gps", "test"} : location' = l
    /\ UNCHANGED <<aiEnabled, uploading, locals, steps, record, upc>>
    /\ UNCHANGED <<file, pixelVars, fuseVars, mapVars>>

\* the AI toggle button
ToggleAi ==
    /\ upc # "off"
    /\ aiEnabled' = ~aiEnabled
    /\ UNCHANGED <<location, uploading, locals, steps, record, upc>>
    /\ UNCHANGED <<file, pixelVars, fuseVars, mapVars>>

\* handleFileUpload with an empty file list: return
UploadNoFile ==
    /\ upc = "idle"
    /\ steps' = <<"return">>
    /\ locals' = NoLocals
    /\ record' = NoRecord
    /\ UNCHANGED <<location, aiEnabled, uploading, upc>>
    /\ UNCHANGED <<file, pixelVars, fuseVars, mapVars>>

\* handleFileUpload without a location: toast.error, return
UploadNoLocation ==
    /\ upc = "idle"
    /\ location = "none"
    /\ steps' = <<"toast_location", "return">>
    /\ locals' = NoLocals
    /\ record' = NoRecord
    /\ UNCHANGED <<location, aiEnabled, uploading, upc>>
    /\ UNCHANGED <<file, pixelVars, fuseVars, mapVars>>

\* handleFileUpload with a file and a location, up to its first await:
\* detectFromFile when AI is enabled, the storage upload otherwise
StartUpload ==
    /\ upc = "idle"
    /\ location # "none"
    /\ uploading' = TRUE
    /\ locals' = [location |-> location, aiEnabled |-> aiEnabled, severity |-> "low",
                  confidence |-> R(5, 10), origin |-> "default"]
    /\ record' = NoRecord
    /\ IF aiEnabled
       THEN steps' = <<"detect">> /\ upc' = "detect"
       ELSE steps' = <<"storage_upload">> /\ upc' = "store"
    /\ UNCHANGED <<location, aiEnabled>>
    /\ UNCHANGED <<file, pixelVars, fuseVars, mapVars>>

\* detectFromFile resolved: its severity and confidence are taken and the
\* storage upload is issued
DetectionResolves ==
    /\ upc = "detect"
    /\ file # "unreadable"
    /\ \E detection \in DetectionsFor(file) :
          locals' = [locals EXCEPT !.severity = detection.severity,
                                  !.confidence = detection.confidence,
                                  !.origin = "detector"]
    /\ steps' = steps \o <<"detected", "storage_upload">>
    /\ upc' = "store"
    /\ UNCHANGED <<location, aiEnabled, uploading, record>>
    /\ UNCHANGED <<file, pixelVars, fuseVars, mapVars>>

\* detectFromFile rejected (fileToBase64 failed): the inner catch draws a random severity and
\* confidence, and the storage upload is issued
DetectionRejects ==
    /\ upc = "detect"
    /\ file = "unreadable"
    /\ \E rnd1, rnd2 \in Randoms :
          locals' = [locals EXCEPT
                        !.severity = <<"low", "medium", "high">>[((3 * rnd1.n) \div rnd1.d) + 1],
                        !.confidence = Add(R(3, 10), Mul(rnd2, R(4, 10))),
                        !.origin = "random"]
    /\ steps' = steps \o <<"detect_failed", "storage_upload">>
    /\ upc' = "store"
    /\ UNCHANGED <<location, aiEnabled, uploading, record>>
    /\ UNCHANGED <<file, pixelVars, fuseVars, mapVars>>

\* the storage upload succeeded: the insert is issued
StorageOk ==
    /\ upc = "store"
    /\ steps' = steps \o <<"storage_ok", "insert">>
    /\ upc' = "insert"
    /\ UNCHANGED <<location, aiEnabled, uploading, locals, record>>
    /\ UNCHANGED <<file, pixelVars, fuseVars, mapVars>>

\* a mutation of StorageError: the error is logged and the run goes on
StorageErrorIgnored ==
    /\ upc = "store"
    /\ steps' = steps \o <<"storage_error", "insert">>
    /\ upc' = "insert"
    /\ UNCHANGED <<location, aiEnabled, uploading, locals, record>>
    /\ UNCHANGED <<file, pixelVars, fuseVars, mapVars>>

\* the storage upload failed: throw, catch (toast.error), finally
StorageError ==
    /\ upc = "store"
    /\ steps' = steps \o <<"storage_error", "toast_error">>
    /\ uploading' = FALSE
    /\ upc' = "idle"
    /\ UNCHANGED <<location, aiEnabled, locals, record>>
    /\ UNCHANGED <<file, pixelVars, fuseVars, mapVars>>

\* the insert succeeded: the row is saved, the form is reset,
\* onUploadSuccess is called, finally
InsertOk ==
    /\ upc = "insert"
    /\ record' = [location |-> locals.location, severity |-> locals.severity,
                  confidence |-> locals.confidence, verified |-> locals.aiEnabled]
    /\ steps' = steps \o <<"insert_ok", "onUploadSuccess">>
    /\ uploading' = FALSE
    /\ upc' = "idle"
    /\ UNCHANGED <<location, aiEnabled, locals>>
    /\ UNCHANGED <<file, pixelVars, fuseVars, mapVars>>

\* a mutation of InsertError: the finally block is missing
InsertErrorNoFinally ==
    /\ upc = "insert"
    /\ steps' = steps \o <<"insert_error", "toast_error">>
    /\ upc' = "idle"
    /\ UNCHANGED <<location, aiEnabled, uploading, locals, record>>
    /\ UNCHANGED <<file, pixelVars, fuseVars, mapVars>>

\* the insert failed: throw dbError, catch (toast.error), finally
InsertError ==
    /\ upc = "insert"
    /\ steps' = steps \o <<"insert_error", "toast_error">>
    /\ uploading' = FALSE
    /\ upc' = "idle"
    /\ UNCHANGED <<location, aiEnabled, locals, record>>
    /\ UNCHANGED <<file, pixelVars, fuseVars, mapVars>>

NextUpload ==
    \/ GetCurrentLocation
    \/ ToggleAi
    \/ UploadNoFile
    \/ UploadNoLocation
    \/ StartUpload
    \/ DetectionResolves
    \/ DetectionRejects
    \/ StorageOk
    \/ StorageError
    \/ InsertOk
    \/ InsertError

SpecUpload == InitUpload /\ [][NextUpload]_vars

\* the file input's disabled attribute
InputDisabled == uploading \/ location = "none"

\* every awaited call of a run settles: detectFromFile, the storage upload
\* and the insert each resolve or fail
SpecUploadFair ==
    /\ SpecUpload
    /\ WF_vars(DetectionResolves \/ DetectionRejects)
    /\ WF_vars(StorageOk \/ StorageError)
    /\ WF_vars(InsertOk \/ InsertError)

(***************************************************************************)
(* PlasticMap: loadDetections at mount and on every tick of the 5 s timer. *)
(* Each call is a query that the server answers with the rows it has at    *)
(* that moment; the answers come back in any order.                        *)
(***************************************************************************)
InitMap ==
    /\ PixelOff
    /\ FuseOff
    /\ UploadOff
    /\ file = "image"
    /\ mapc = "rendered"
    /\ interval = FALSE
    /\ rows \in 0 .. 1
    /\ loads = <<>>
    /\ detections = 0
    /\ shownBy = 0
    /\ loading = TRUE
    /\ unmountedAt = -1

\* a loadDetections call whose query is on its way
Sent == [state |-> "sent", data |-> 0, ok |-> FALSE]

\* the rows the query selects: the newest 50 at most
Selected(n) == IF n > 50 THEN 50 ELSE n

\* useEffect at mount: loadDetections(), setInterval
Mount ==
    /\ mapc = "rendered"
    /\ loads' = Append(loads, Sent)
    /\ interval' = TRUE
    /\ mapc' = "mounted"
    /\ UNCHANGED <<rows, detections, shownBy, loading, unmountedAt>>
    /\ UNCHANGED <<file, pixelVars, fuseVars, uploadVars>>

\* the timer fires: loadDetections(), whether or not earlier calls returned
TimerFires ==
    /\ interval
    /\ Len(loads) < MaxLoads
    /\ loads' = Append(loads, Sent)
    /\ UNCHANGED <<mapc, interval, rows, detections, shownBy, loading, unmountedAt>>
    /\ UNCHANGED <<file, pixelVars, fuseVars, uploadVars>>

\* the effect's cleanup at unmount: clearInterval
Unmount ==
    /\ mapc = "mounted"
    /\ interval' = FALSE
    /\ mapc' = "unmounted"
    /\ unmountedAt' = Len(loads)
    /\ UNCHANGED <<rows, loads, detections, shownBy, loading>>
    /\ UNCHANGED <<file, pixelVars, fuseVars, uploadVars>>

\* a detection is saved by some client
RowInserted ==
    /\ mapc \in {"mounted", "unmounted"}
    /\ rows < MaxRows
    /\ rows' = rows + 1
    /\ UNCHANGED <<mapc, interval, loads, detections, shownBy, loading, unmountedAt>>
    /\ UNCHANGED <<file, pixelVars, fuseVars, uploadVars>>

\* the server runs the query of call k
QueryRuns(k) ==
    /\ loads[k].state = "sent"
    /\ loads' = [loads EXCEPT ![k] = [state |-> "answered", data |-> Selected(rows), ok |-> TRUE]]
    /\ UNCHANGED <<mapc, interval, rows, detections, shownBy, loading, unmountedAt>>
    /\ UNCHANGED <<file, pixelVars, fuseVars, uploadVars>>

\* the query of call k fails (error in the answer, or the await throws):
\* return or catch, then finally
QueryFails(k) ==
    /\ loads[k].state = "sent"
    /\ loads' = [loads EXCEPT ![k] = [state |-> "done", data |-> 0, ok |-> FALSE]]
    /\ loading' = IF mapc = "mounted" THEN FALSE ELSE loading
    /\ UNCHANGED <<mapc, interval, rows, detections, shownBy, unmountedAt>>
    /\ UNCHANGED <<file, pixelVars, fuseVars, uploadVars>>

\* the answer of call k arrives: setDetections(parsed), finally
\* setLoading(false); React drops state updates of an unmounted component
AnswerArrives(k) ==
    /\ loads[k].state = "answered"
    /\ loads' = [loads EXCEPT ![k].state = "done"]
    /\ IF mapc = "mounted"
       THEN detections' = loads[k].data /\ shownBy' = k
       ELSE UNCHANGED <<detections, shownBy>>
    /\ loading' = IF mapc = "mounted" THEN FALSE ELSE loading
    /\ UNCHANGED <<mapc, interval, rows, unmountedAt>>
    /\ UNCHANGED <<file, pixelVars, fuseVars, uploadVars>>

NextMap ==
    \/ Mount
    \/ TimerFires
    \/ Unmount
    \/ RowInserted
    \/ \E k \in 1 .. Len(loads) : QueryRuns(k)
    \/ \E k \in 1 .. Len(loads) : QueryFails(k)
    \/ \E k \in 1 .. Len(loads) : AnswerArrives(k)

SpecMap == InitMap /\ [][NextMap]_vars

(***************************************************************************)
(* The whole program: a detector invoked on its own, or a component.       *)
(***************************************************************************)
Init == InitPixel \/ InitFuse \/ InitUpload \/ InitMap

Next == NextPixel \/ NextFuse \/ NextUpload \/ NextMap

Spec == Init /\ [][Next]_vars

(***************************************************************************)
(* Properties.                                                             *)
(***************************************************************************)
PrimarySum(c) ==
    c.darkBlue + c.mediumBlue + c.lightBlue + c.brightBlue + c.white
    + c.gray + c.red + c.yellow + c.green + c.brown

InUnit(x) == Le(Zero, x) /\ Le(x, One)

\* C1: in pixel mode the severity of a returned verdict is low iff
\* plasticScore < 0.25, medium iff 0.25 <= plasticScore < 0.6 and high iff
\* plasticScore >= 0.6; exactly 0.25 is medium and exactly 0.6 is high.
C1_PixelSeverityThresholds ==
    pc = "done" =>
        LET s == result.plasticScore
        IN  /\ InUnit(s)
            /\ (result.severity = "low") <=> Lt(s, R(25, 100))
            /\ (result.severity = "medium") <=> (Ge(s, R(25, 100)) /\ Lt(s, R(6, 10)))
            /\ (result.severity = "high") <=> Ge(s, R(6, 10))
            /\ (s = R(25, 100) => result.severity = "medium")
            /\ (s = R(6, 10) => result.severity = "high")

\* a verdict whose plasticScore is exactly 0.25 (one bright-blue sample,
\* eleven water samples)
C1_Witness ==
    pc = "done" /\ result.plasticScore = R(25, 100) /\ result.severity = "medium"

C3_PixelScoresInUnit ==
    pc = "done" =>
        /\ counts.total > 0
        /\ InUnit(calculateWaterScore(counts))
        /\ InUnit(detectPlasticIndicators(counts).score)
        /\ InUnit(detectUnnaturalColors(counts).score)
        /\ InUnit(result.plasticScore)

\* the all-red grid: its indicator score is clamped and plasticScore is 1
C3_Witness ==
    /\ pc = "done"
    /\ counts.red = counts.total
    /\ detectPlasticIndicators(counts).score = One
    /\ result.plasticScore = One

\* C4 as stated: in external mode the plasticScore of the verdict lies in
\* [0, 1] for every combination of detector outputs.
C4_FusePlasticScoreInUnit ==
    fpc = "done" => InUnit(combined.plasticScore)

\* C5: every verdict has confidence in [0, 1]; in pixel mode it is in
\* [0.85, 0.95) for low, [0.75, 0.90) for medium, [0.80, 0.95) for high; in
\* external mode with a detector available it is min(0.95, plasticScore + 0.3).
C5_ConfidenceRanges ==
    /\ pc = "done" =>
          /\ InUnit(result.confidence)
          /\ result.severity = "low" =>
                Ge(result.confidence, R(85, 100)) /\ Lt(result.confidence, R(95, 100))
          /\ result.severity = "medium" =>
                Ge(result.confidence, R(75, 100)) /\ Lt(result.confidence, R(90, 100))
          /\ result.severity = "high" =>
                Ge(result.confidence, R(80, 100)) /\ Lt(result.confidence, R(95, 100))
    /\ fpc = "done" =>
          /\ InUnit(combined.confidence)
          /\ (googleResults # Null \/ roboflowResults # Null) =>
                combined.confidence = Min(R(95, 100), Add(combined.plasticScore, R(3, 10)))

\* an external verdict whose confidence is capped at 0.95
C5_Witness ==
    /\ fpc = "done"
    /\ googleResults # Null
    /\ Gt(combined.plasticScore, R(65, 100))
    /\ combined.confidence = R(95, 100)

\* C6: one pixel increments at most one primary category; greenBlue is the
\* only counter that can rise together with a primary one; no counter is
\* ever negative.
C6_OnePrimaryPerPixel ==
    [][/\ \A k \in BucketNames : counts'[k] >= 0
       /\ (pc' = "count" /\ i' = i + 1) =>
             /\ \A k \in BucketNames : counts'[k] \in {counts[k], counts[k] + 1}
             /\ Cardinality({k \in PrimaryBuckets : counts'[k] # counts[k]}) <= 1
             /\ counts'.total = counts.total]_vars

\* a pixel counted as light water and as green-tinted water
C6_Witness ==
    pc = "count" /\ i = 1 /\ counts.lightBlue = 1 /\ counts.greenBlue = 1

\* C7 as stated: the sum of all eleven category counts is at most total.
C7_AllCountsWithinTotal ==
    PrimarySum(counts) + counts.greenBlue <= counts.total

\* C7 amended: the sum of the ten primary counts is at most total and the
\* green-tinted-water count is at most total (all eleven: at most 2 * total).
C7_PrimaryCountsWithinTotal ==
    /\ PrimarySum(counts) <= i
    /\ counts.greenBlue <= i
    /\ i <= counts.total
    /\ PrimarySum(counts) + counts.greenBlue <= 2 * counts.total

\* a histogram whose eleven counts add up to more than total
C7_Witness ==
    /\ pc = "done"
    /\ PrimarySum(counts) = counts.total
    /\ PrimarySum(counts) + counts.greenBlue > counts.total

\* the histogram c with k more bright-water-anomaly samples
MoreBright(c, k) == [c EXCEPT !.brightBlue = @ + k]

\* C8 as stated: raising the bright-water-anomaly count, all else fixed,
\* never lowers the score of detectPlasticIndicators, up to ratio 1.
C8_BrightMonotoneEverywhere ==
    (pc = "done") =>
        \A k \in 1 .. (counts.total - PrimarySum(counts)) :
            Ge(detectPlasticIndicators(MoreBright(counts, k)).score,
               detectPlasticIndicators(counts).score)

\* C8 amended: the same, provided the raised bright-water-anomaly ratio
\* stays below 0.2.
C8_BrightMonotoneBelowGuard ==
    (pc = "done") =>
        \A k \in 1 .. (counts.total - PrimarySum(counts)) :
            Lt(R(counts.brightBlue + k, counts.total), R(2, 10)) =>
                Ge(detectPlasticIndicators(MoreBright(counts, k)).score,
                   detectPlasticIndicators(counts).score)

\* one bright sample in the band and room for a second one below the guard
C8_Witness ==
    /\ pc = "done"
    /\ counts.brightBlue = 1
    /\ PrimarySum(counts) < counts.total
    /\ Lt(R(2, counts.total), R(2, 10))
    /\ Gt(detectPlasticIndicators(MoreBright(counts, 1)).score,
          detectPlasticIndicators(counts).score)
    /\ Gt(detectPlasticIndicators(counts).score, Zero)

\* C9: two analyses of the same grid return the same plasticScore and the
\* same severity, whatever the two jitter values.
C9_RepeatableScoreAndSeverity ==
    (pc = "done" /\ call = 2) =>
        /\ result.plasticScore = firstResult.plasticScore
        /\ result.severity = firstResult.severity

\* two analyses of one grid that drew different jitter
C9_Witness ==
    /\ pc = "done"
    /\ call = 2
    /\ result.confidence # firstResult.confidence
    /\ result.severity = "medium"

SpecLabel == <<"u", "n", "a", "b", "l", "e", " ", "t", "o", " ", "r", "e", "a", "c", "h", " ", "e", "x", "t", "e", "r", "n", "a", "l", " ", "d", "e", "t", "e", "c", "t", "o", "r", "s">>

BothNull == googleResults = Null /\ roboflowResults = Null

VerdictsOf(googleVision, roboflow) ==
    {combineResults(googleVision, roboflow, rnd) : rnd \in RandomDraws(googleVision, roboflow)}

\* C11: the two detector calls are pending together; combineResults runs at
\* most once and only when both calls have settled, whatever their order and
\* outcome; the verdict is a function of the two outcomes alone (not of the
\* order), and a failed call leaves the other call's result in the verdict.
C11_CombineOnceAfterBothSettle ==
    /\ combineCalls <= 1
    /\ (combineCalls = 1) <=> (fpc = "done")
    /\ (fpc = "detecting" /\ settled = <<>>) =>
          googleResults = Pending /\ roboflowResults = Pending
    /\ fpc = "done" =>
          /\ googleResults # Pending
          /\ roboflowResults # Pending
          /\ settled \in {<<"google", "roboflow">>, <<"roboflow", "google">>}
          /\ combined \in VerdictsOf(googleResults, roboflowResults)
          /\ (googleResults = Null /\ HasPredictions(roboflowResults)) =>
                /\ combined.objects = Dedupe(PredictionObjects(roboflowResults.predictions))
                /\ combined.plasticScore =
                       Mul(RoboflowPart(roboflowResults).roboflowScore, R(5, 10))
          /\ (roboflowResults = Null /\ HasResponse(googleResults)) =>
                /\ combined.objects = Dedupe(GooglePart(googleResults).objects)
                /\ combined.plasticScore = GooglePart(googleResults).score

\* Roboflow settles first with boxes, Google Vision settles second with a
\* failure, and the boxes are in the verdict
C11_Witness ==
    /\ fpc = "done"
    /\ settled = <<"roboflow", "google">>
    /\ googleResults = Null
    /\ HasPredictions(roboflowResults)
    /\ Len(combined.objects) > 0
    /\ combineCalls = 1

\* both calls returned a body without the expected property
BothMalformed == googleResults = Malformed /\ roboflowResults = Malformed

\* a malformed body read as an unavailable detector
AsUnavailable(data) == IF data = Malformed THEN Null ELSE data

\* the fields of a verdict that are derived from the detector outcomes
Derived(verdict) ==
    <<verdict.severity, verdict.confidence, verdict.objects, verdict.plasticScore>>

\* C12: a body without responses / predictions counts as an unavailable
\* detector: the verdict is one that the same outcomes with null in place of
\* the malformed body give; with both bodies malformed the verdict is the
\* fallback verdict (confidence 0.5, plasticScore in [0.3, 0.6], the fallback
\* label), not a low verdict.
C12_MalformedIsUnavailable ==
    /\ fpc = "done" =>
          Derived(combined) \in
              {Derived(v) : v \in VerdictsOf(AsUnavailable(googleResults),
                                             AsUnavailable(roboflowResults))}
    /\ (fpc = "done" /\ BothMalformed) =>
          /\ combined.confidence = R(5, 10)
          /\ Ge(combined.plasticScore, R(3, 10))
          /\ Le(combined.plasticScore, R(6, 10))
          /\ combined.objects = <<FallbackLabel>>
          /\ combined.severity # "low"

\* C13: for a file that cannot be read or decoded as an image the invocation
\* ends rejected and delivers no verdict: once the read or the decoding has
\* failed the promise is rejected (it does not stay pending), and neither
\* detector ever resolves with a verdict for such a file.
C13_UndecodableFileRejects ==
    /\ (file # "image" /\ pc = "failed") => promise = "rejected"
    /\ file # "image" => promise # "resolved"
    /\ file # "image" => fpc \in {"off", "reading", "rejected"}

DeepBlue == <<20, 40, 90>>
MediumBlue == <<60, 90, 150>>
White == <<255, 255, 255>>

\* the histogram has no white, red, yellow, bright-anomaly or brown sample
NoPlasticColours(c) ==
    c.white = 0 /\ c.red = 0 /\ c.yellow = 0 /\ c.brightBlue = 0 /\ c.brown = 0

\* C14: a grid without white, red, yellow, bright-anomaly and brown samples
\* whose waterScore exceeds 0.6 gets plasticScore exactly 0.1 and severity
\* low; the uniform deep-blue grid (20,40,90) is such a grid.
C14_CleanWaterScoresBase ==
    /\ (pc = "done" /\ NoPlasticColours(counts)
            /\ Gt(calculateWaterScore(counts), R(6, 10))) =>
          /\ result.plasticScore = R(1, 10)
          /\ result.severity = "low"
    /\ (pc = "done" /\ pixels = Repeat(DeepBlue, Len(pixels))) =>
          /\ NoPlasticColours(counts)
          /\ Gt(calculateWaterScore(counts), R(6, 10))
          /\ result.plasticScore = R(1, 10)
          /\ result.severity = "low"

\* the uniform deep-blue grid has been analysed
C14_Witness ==
    /\ pc = "done"
    /\ pixels = Repeat(DeepBlue, GridSize)
    /\ Gt(calculateWaterScore(counts), R(6, 10))
    /\ result.plasticScore = R(1, 10)

\* the grid whose first half is medium blue and whose second half is white
HalfWhite(n) == Repeat(MediumBlue, n \div 2) \o Repeat(White, n - (n \div 2))

\* the base of the plastic score of histogram c
BaseOf(c) == IF Gt(calculateWaterScore(c), R(6, 10)) THEN R(1, 10) ELSE R(3, 10)

\* C15: with whiteRatio >= 0.3 the indicator score is what it is without the
\* white samples; for the half-white, half-medium-blue grid the indicator
\* score is 0, plasticScore does not exceed its base and severity is not high.
C15_WhiteDominanceSuppressed ==
    /\ (counts.total > 0 /\ Ge(R(counts.white, counts.total), R(3, 10))) =>
          detectPlasticIndicators(counts).score =
              detectPlasticIndicators([counts EXCEPT !.white = 0]).score
    /\ (pc = "done" /\ pixels = HalfWhite(Len(pixels))) =>
          /\ detectPlasticIndicators(counts).score = Zero
          /\ Le(result.plasticScore, BaseOf(counts))
          /\ result.severity # "high"

\* the half-white grid has been analysed: whiteRatio is 0.5
C15_Witness ==
    /\ pc = "done"
    /\ pixels = HalfWhite(GridSize)
    /\ counts.white * 2 >= counts.total
    /\ counts.white > 0
    /\ result.severity = "medium"

PlasticBottleText == <<"P", "l", "a", "s", "t", "i", "c", " ", "b", "o", "t", "t", "l", "e">>
OceanText == <<"O", "c", "e", "a", "n">>
BottleText == <<"B", "o", "t", "t", "l", "e">>

\* the sum of a sequence of numbers
RECURSIVE SumOf(_)
SumOf(scores) == IF scores = <<>> THEN Zero ELSE Add(Head(scores), SumOf(Tail(scores)))

\* labelPlasticScore and labelWaterScore of a response as the claim defines
\* them: each label or object with a plastic (water) text counts once
LabelPlasticScore(response) ==
    Add(SumOf([k \in 1 .. Len(response.labelAnnotations) |->
                  IF response.labelAnnotations[k].description = PlasticBottleText
                  THEN response.labelAnnotations[k].score ELSE Zero]),
        SumOf([k \in 1 .. Len(response.objectAnnotations) |->
                  IF response.objectAnnotations[k].name = BottleText
                  THEN response.objectAnnotations[k].score ELSE Zero]))

LabelWaterScore(response) ==
    SumOf([k \in 1 .. Len(response.labelAnnotations) |->
              IF response.labelAnnotations[k].description = OceanText
              THEN response.labelAnnotations[k].score ELSE Zero])

\* the contribution of the label detector as the claim states it
GoogleContribution(response) ==
    IF Gt(LabelWaterScore(response), R(7, 10)) /\ Lt(LabelPlasticScore(response), R(2, 10))
    THEN R(1, 10)
    ELSE Mul(R(5, 10), LabelPlasticScore(response))

\* C16: when the label detector's response is present its contribution to
\* plasticScore is 0.1 if labelWaterScore > 0.7 and labelPlasticScore < 0.2
\* and 0.5 * labelPlasticScore otherwise, with each matching label counted
\* once; the rest of plasticScore is the box detector's half average.
C16_GoogleContribution ==
    (fpc = "done" /\ HasResponse(googleResults)) =>
        combined.plasticScore =
            Add(GoogleContribution(googleResults.responses[1]),
                IF HasPredictions(roboflowResults)
                THEN Mul(R(5, 10), RoboflowPart(roboflowResults).roboflowScore)
                ELSE Zero)

\* the label "Plastic bottle" with score 0.9 and water labels totalling 0.1
\* contribute 0.45
C16_Witness ==
    /\ fpc = "done"
    /\ HasResponse(googleResults)
    /\ googleResults.responses[1].labelAnnotations =
           <<[description |-> PlasticBottleText, score |-> R(9, 10)],
             [description |-> OceanText, score |-> R(1, 10)]>>
    /\ googleResults.responses[1].objectAnnotations = <<>>
    /\ ~HasPredictions(roboflowResults)
    /\ combined.plasticScore = R(45, 100)

\* the average box confidence of a Roboflow body with boxes
AverageConfidence(roboflow) ==
    LET sum == SumOf([k \in 1 .. Len(roboflow.predictions) |->
                         roboflow.predictions[k].confidence])
    IN  R(sum.n, sum.d * Len(roboflow.predictions))

\* C17: when the box detector returns at least one box it contributes
\* 0.5 * (average box confidence) to plasticScore and the confidence of the
\* verdict is at least that average (confidence = max(confidence, average)).
C17_ConfidenceAtLeastAverage ==
    (fpc = "done" /\ HasPredictions(roboflowResults)) =>
        /\ combined.plasticScore =
               Add(GooglePart(googleResults).score,
                   Mul(R(5, 10), AverageConfidence(roboflowResults)))
        /\ Ge(combined.confidence, AverageConfidence(roboflowResults))

\* C18: the objects list of every verdict of combineResults has no two
\* equal entries, also when labels or boxes repeat.
C18_ObjectsAreDistinct ==
    fpc = "done" =>
        \A j, k \in 1 .. Len(combined.objects) :
            combined.objects[j] = combined.objects[k] => j = k

\* two boxes of the same class and confidence give one entry
C18_Witness ==
    /\ fpc = "done"
    /\ HasPredictions(roboflowResults)
    /\ Len(roboflowResults.predictions) = 2
    /\ roboflowResults.predictions[1] = roboflowResults.predictions[2]
    /\ googleResults = Null
    /\ Len(combined.objects) = 1

\* C19: with both results null the severity of the verdict is medium or
\* high for every random score of the band, never low.
C19_FallbackNeverLow ==
    (fpc = "done" /\ BothNull) =>
        /\ combined.severity \in {"medium", "high"}
        /\ Ge(combined.plasticScore, R(3, 10))

\* a fallback verdict whose random score reaches 0.5, which is high
C19_Witness ==
    /\ fpc = "done"
    /\ BothNull
    /\ combined.severity = "high"
    /\ combined.objects = <<FallbackLabel>>

\* the position of event e in the log of the run, 0 when it is absent
Pos(e) ==
    IF \E k \in 1 .. Len(steps) : steps[k] = e
    THEN CHOOSE k \in 1 .. Len(steps) : steps[k] = e
    ELSE 0

\* event a is in the log and event b, if there, comes after it
Before(a, b) == Pos(a) > 0 /\ (Pos(b) > 0 => Pos(a) < Pos(b))

\* C20: handleFileUpload issues the storage upload and the insert only with
\* a captured location, the insert only after the storage upload succeeded,
\* and calls onUploadSuccess only after the insert succeeded; after a storage
\* or database error no later step runs.
C20_UploadStepsOrdered ==
    /\ (Pos("storage_upload") > 0 \/ Pos("insert") > 0) =>
          location # "none" /\ locals.location # "none"
    /\ Pos("insert") > 0 => Before("storage_ok", "insert")
    /\ Pos("storage_ok") > 0 => Before("storage_upload", "storage_ok")
    /\ Pos("onUploadSuccess") > 0 => Before("insert_ok", "onUploadSuccess")
    /\ Pos("insert_ok") > 0 => Before("insert", "insert_ok")
    /\ Pos("storage_error") > 0 =>
          Pos("insert") = 0 /\ Pos("onUploadSuccess") = 0 /\ record = NoRecord
    /\ Pos("insert_error") > 0 => Pos("onUploadSuccess") = 0 /\ record = NoRecord
    /\ record # NoRecord => Pos("insert_ok") > 0 /\ record.location # "none"
    /\ upc = "insert" => Pos("storage_ok") > 0

\* a run with AI enabled went through detection, storage upload, insert and
\* map refresh, in this order
C20_Witness ==
    /\ upc = "idle"
    /\ steps = <<"detect", "detected", "storage_upload", "storage_ok", "insert",
                 "insert_ok", "onUploadSuccess">>
    /\ record # NoRecord
    /\ ~uploading

\* C21: a run of handleFileUpload that set uploading to true sets it back to
\* false, whatever the outcome, when every awaited call settles; between
\* runs uploading is false, so with a location the file input is enabled.
C21_UploadingEventuallyFalse ==
    /\ uploading ~> ~uploading
    /\ []((upc = "idle") => (~uploading /\ (location # "none" => ~InputDisabled)))
    /\ [](uploading => upc \in {"detect", "store", "insert"})

\* a run whose insert failed has ended and uploading is false again
C21_Witness ==
    /\ upc = "idle"
    /\ Pos("insert_error") > 0
    /\ ~uploading
    /\ ~InputDisabled

\* C22: a row is saved with verified = true only when its severity and
\* confidence are those of a resolved detectFromFile call; a row from the
\* random fallback or from the AI-disabled defaults is not verified.
C22_VerifiedOnlyIfDetected ==
    (record # NoRecord /\ record.verified) =>
        /\ locals.origin = "detector"
        /\ <<record.severity, record.confidence>> \in
               {<<d.severity, d.confidence>> : d \in DetectionsFor(file)}

\* every call issued so far has completed
AllLoadsDone == \A k \in 1 .. Len(loads) : loads[k].state = "done"

\* C23: when all calls in flight have completed, the detections state is the
\* data of the most recently issued call, in whatever order the answers
\* arrived (an older answer does not replace a newer one); after unmount no
\* call is issued.
C23_LatestLoadWins ==
    /\ (mapc = "mounted" /\ Len(loads) > 0 /\ AllLoadsDone /\ loads[Len(loads)].ok) =>
          detections = loads[Len(loads)].data
    /\ mapc = "unmounted" => (~interval /\ Len(loads) = unmountedAt)

====
